---- MODULE Spec2Model ----
(***************************************************************************)
(* A model of the two export scripts of AnonAddyDataFetch:                 *)
(*   src/addyio-data-fetch.py      (variant "addyio",   --columns option)  *)
(*   src/retrieve-information.py   (variant "retrieve", fixed two columns) *)
(* One run of a script is one behaviour: the command line is chosen in     *)
(* Init, the remote service chooses each page response when it is asked.   *)
(***************************************************************************)
EXTENDS Integers, Sequences, FiniteSets, TLC

\* ------------------------------------------------------------------ bounds
\* The service holds at most MaxRecords records in all the bodies it sends
\* during one run; the --columns text has at most MaxArgLen tokens.
MaxRecords == 3
MaxArgLen == 3

\* ------------------------------------------------------------ Python values
\* A JSON scalar as Python sees it: None, or a str.
None == [isNone |-> TRUE, s |-> ""]
Str(x) == [isNone |-> FALSE, s |-> x]

\* ----------------------------------------------------------- command line
Variants == {"addyio", "retrieve"}

\* --log-level choices of the argument parser (the same list in both scripts).
LogLevelChoices == {"debug", "info", "warning", "error", "critical"}

\* The --log-level texts a caller tries: an accepted one, one the mapping
\* knows but the parser does not offer, and one nobody knows.
LogLevelInputs == {"info", "fatal", "verbose"}

\* The text of --columns is a sequence of tokens: the separator ",", the
\* whitespace " ", or a word (a run of characters holding neither).
Comma == ","
Space == " "
ColumnTokens == {Comma, Space, "email", "description", "bogus"}

RECURSIVE TokenSeqs(_)
TokenSeqs(n) ==
    IF n = 0 THEN {<<>>}
    ELSE LET shorter == TokenSeqs(n - 1)
         IN  shorter \cup {Append(s, t) : s \in {u \in shorter : Len(u) = n - 1},
                                          t \in ColumnTokens}

\* args.columns: None when the option is omitted, else its text.
ColumnsOmitted == [given |-> FALSE, tokens |-> <<>>]
ColumnsGiven(tokens) == [given |-> TRUE, tokens |-> tokens]
ColumnsInputs == {ColumnsOmitted} \cup {ColumnsGiven(t) : t \in TokenSeqs(MaxArgLen)}

\* ------------------------------------------------------------ main_column_list
main_column_list ==
    << "id", "user_id", "aliasable_id", "aliasable_type", "local_part",
       "extension", "domain", "email", "active", "description",
       "emails_forwarded", "emails_blocked", "emails_replied", "emails_sent",
       "recipients", "created_at", "updated_at", "deleted_at" >>

Range(seq) == {seq[i] : i \in 1..Len(seq)}

\* The header retrieve-information.py hard-codes.
fixed_columns == << "email", "description" >>

\* ------------------------------------------------------------ the service
\* Records the service may hold.  AliasA is complete, AliasB is complete with
\* a null description, AliasC has no "description" key and one key the
\* allow-list does not know.
AliasKeys == Range(main_column_list)

Alias(tag, keys, description) ==
    [k \in keys |->
        IF k = "email" THEN Str(tag \o "@x.com")
        ELSE IF k = "description" THEN description
        ELSE Str(tag \o "." \o k)]

AliasA == Alias("a", AliasKeys, Str("d1"))
AliasB == Alias("b", AliasKeys, None)
AliasC == Alias("c", (AliasKeys \ {"description"}) \cup {"from_name"}, None)

Records == {AliasA, AliasB, AliasC}

RECURSIVE RecordSeqs(_)
RecordSeqs(n) ==
    IF n = 0 THEN {<<>>}
    ELSE LET shorter == RecordSeqs(n - 1)
         IN  shorter \cup {Append(s, r) : s \in {u \in shorter : Len(u) = n - 1},
                                          r \in Records}

StatusCodes == {200, 400, 503}

\* A response: its status code and the "data" list of its JSON body.
Responses(n) == [status_code : StatusCodes, data : RecordSeqs(n)]

\* ------------------------------------------------------------------- state
VARIABLES
    variant,        \* which script runs
    log_level,      \* the --log-level text on the command line
    columns,        \* args.columns
    pc,             \* position of the run
    column_names,   \* the column_names list (the fixed header in "retrieve")
    page_number,    \* perform_fetches' page_number
    data_list,      \* perform_fetches' data_list
    requests,       \* page numbers of the requests issued, in order
    responses,      \* the responses the service returned, in order
    file,           \* lines of the output file
    file_opened,    \* whether open(filename, 'w') has run
    exit_code,      \* process exit status, -1 while the process runs
    error_output    \* what ended the run abnormally, "" otherwise

vars == << variant, log_level, columns, pc, column_names, page_number, data_list,
           requests, responses, file, file_opened, exit_code, error_output >>

\* The file as a previous run left it.
OldFile == << "previous contents" >>

Init ==
    /\ variant \in Variants
    /\ log_level \in LogLevelInputs
    /\ columns \in ColumnsInputs
    /\ variant = "retrieve" => columns = ColumnsOmitted
    /\ pc = "parse_args"
    /\ column_names = <<>>
    /\ page_number = 0
    /\ data_list = <<>>
    /\ requests = <<>>
    /\ responses = <<>>
    /\ file = OldFile
    /\ file_opened = FALSE
    /\ exit_code = -1
    /\ error_output = ""

\* ------------------------------------------------------------ str methods
\* str.split(','): the pieces between the separators, empty pieces kept.
RECURSIVE split(_, _)
split(text, sep) ==
    IF \A i \in 1..Len(text) : text[i] # sep THEN << text >>
    ELSE LET i == CHOOSE j \in 1..Len(text) :
                      text[j] = sep /\ \A k \in 1..(j - 1) : text[k] # sep
         IN  << SubSeq(text, 1, i - 1) >> \o split(SubSeq(text, i + 1, Len(text)), sep)

\* str.strip(): leading and trailing whitespace removed.
RECURSIVE lstrip(_)
lstrip(text) ==
    IF text # <<>> /\ Head(text) = Space THEN lstrip(Tail(text)) ELSE text

RECURSIVE rstrip(_)
rstrip(text) ==
    IF text # <<>> /\ text[Len(text)] = Space
    THEN rstrip(SubSeq(text, 1, Len(text) - 1))
    ELSE text

strip(text) == rstrip(lstrip(text))

\* The str a token sequence spells.
RECURSIVE Spell(_)
Spell(text) == IF text = <<>> THEN "" ELSE Head(text) \o Spell(Tail(text))

\* [column_name.strip() for column_name in args.columns.split(',')]
user_column_selection(tokens) ==
    LET pieces == split(tokens, Comma)
    IN  [i \in 1..Len(pieces) |-> Spell(strip(pieces[i]))]

\* ------------------------------------------------------------ pure functions
\* Mutant: the parser offers no choices, every --log-level text passes.
log_level_accepted_any(level) == TRUE

\* parse_args: whether the parser accepts the --log-level text.
log_level_accepted(level) == level \in LogLevelChoices

\* logging_level_from_string: mapping.get(log_level), ValueError when None.
logging_level_from_string(level) ==
    LET mapping == [l \in {"debug", "info", "warning", "error", "critical", "fatal"} |->
                       CASE l = "debug" -> 10
                         [] l = "info" -> 20
                         [] l = "warning" -> 30
                         [] l = "error" -> 40
                         [] OTHER -> 50]
    IN  IF level \in DOMAIN mapping
        THEN [raised |-> FALSE, value |-> mapping[level]]
        ELSE [raised |-> TRUE, value |-> 0]

\* Mutant: the loop returns True after looking at the first name.
validate_first_name_only(selection) ==
    selection = <<>> \/ selection[1] \in Range(main_column_list)

\* validate_user_column_selection: False at the first name not in the list.
validate_user_column_selection(selection) ==
    \A i \in 1..Len(selection) : selection[i] \in Range(main_column_list)

\* Names in the order sorted() gives them.
SortedNames ==
    << "active", "aliasable_id", "aliasable_type", "created_at", "deleted_at",
       "description", "domain", "email", "emails_blocked", "emails_forwarded",
       "emails_replied", "emails_sent", "extension", "from_name", "id",
       "local_part", "recipients", "updated_at", "user_id" >>

sorted(names) == SelectSeq(SortedNames, LAMBDA n : n \in names)

\* Mutant: the default is the sorted allow-list.
selected_columns_sorted(cols) ==
    IF ~cols.given THEN sorted(Range(main_column_list))
    ELSE user_column_selection(cols.tokens)

\* The column_names the __main__ block of addyio-data-fetch.py hands to main.
selected_columns(cols) ==
    IF ~cols.given THEN main_column_list ELSE user_column_selection(cols.tokens)

\* d.get(key): never raises, None for an absent key.
dict_get(d, key) ==
    [raised |-> FALSE, value |-> IF key \in DOMAIN d THEN d[key] ELSE None]

\* Mutant: the row is built with d.get(key).
dict_getitem_as_get(d, key) == dict_get(d, key)

\* d[key]: raises KeyError for an absent key.
dict_getitem(d, key) ==
    [raised |-> key \notin DOMAIN d, value |-> IF key \in DOMAIN d THEN d[key] ELSE None]

\* key_is_missing: True only when d.get(key) raises KeyError.
key_is_missing(d, key) == dict_get(d, key).raised

\* Mutant: the comparison is strict.
status_above_400(status_code) == status_code > 400

\* response.status_code >= 400
status_is_failure(status_code) == status_code >= 400

\* Mutant: the counter is advanced twice.
next_page_number_twice(n) == n + 2

\* page_number += 1
next_page_number(n) == n + 1

\* Mutant: data_list starts empty.
initial_data_list_empty(cols) == << >>

\* data_list = [column_names]
initial_data_list(cols) == << [i \in 1..Len(cols) |-> Str(cols[i])] >>

\* The missing_keys list of one datum; retrieve-information.py has no such check.
missing_keys(v, datum, cols) ==
    IF v = "addyio" THEN SelectSeq(cols, LAMBDA c : key_is_missing(datum, c)) ELSE <<>>

\* Mutant: the row is built in reverse column order.
row_items_reversed(datum, cols) ==
    [i \in 1..Len(cols) |-> dict_getitem(datum, cols[Len(cols) + 1 - i])]

\* [datum[column_name] for column_name in column_names], item by item.
row_items(datum, cols) == [i \in 1..Len(cols) |-> dict_getitem(datum, cols[i])]

\* Mutant: the row is inserted right after the header.
insert_row_after_header(rows, row) == << Head(rows), row >> \o Tail(rows)

\* data_list.append(row)
append_row(rows, row) == Append(rows, row)

\* The for-loop over page_data: rows appended until a datum ends the run.
RECURSIVE process_page(_, _, _, _)
process_page(v, page_data, cols, rows) ==
    IF page_data = <<>> THEN [outcome |-> "ok", data_list |-> rows]
    ELSE LET datum == Head(page_data)
             items == row_items(datum, cols)
         IN  IF Len(missing_keys(v, datum, cols)) > 0
             THEN [outcome |-> "Missing keys detected", data_list |-> rows]
             ELSE IF \E i \in 1..Len(cols) : items[i].raised
             THEN [outcome |-> "KeyError", data_list |-> rows]
             ELSE process_page(v, Tail(page_data), cols,
                               append_row(rows, [i \in 1..Len(cols) |-> items[i].value]))

\* csv.writer, dialect 'excel': None is written as the empty field; a row of
\* one empty field is written as "" so that the line is not blank.  The values
\* of the model hold no delimiter, quote or line break, so no other field is
\* quoted.
csv_field(value) == IF value.isNone THEN "" ELSE value.s

RECURSIVE csv_join(_)
csv_join(fields) ==
    IF fields = <<>> THEN ""
    ELSE IF Len(fields) = 1 THEN Head(fields)
    ELSE Head(fields) \o "," \o csv_join(Tail(fields))

csv_line(row) ==
    LET fields == [i \in 1..Len(row) |-> csv_field(row[i])]
    IN  IF fields = << "" >> THEN "\"\"" ELSE csv_join(fields)

\* Records the service has put into response bodies so far.
RECURSIVE Served(_)
Served(resps) ==
    IF resps = <<>> THEN 0 ELSE Len(Head(resps).data) + Served(Tail(resps))

\* ----------------------------------------------------------------- actions
Exit(code, why) ==
    /\ pc' = "exited"
    /\ exit_code' = code
    /\ error_output' = why

\* parser.parse_args(): a --log-level outside the choices is a usage error,
\* which argparse reports and ends with status 2.
ParseArgs ==
    /\ pc = "parse_args"
    /\ IF log_level_accepted(log_level)
       THEN pc' = "logging" /\ UNCHANGED << exit_code, error_output >>
       ELSE Exit(2, "argparse: invalid choice")
    /\ UNCHANGED << variant, log_level, columns, column_names, page_number, data_list,
                    requests, responses, file, file_opened >>

\* logging_level_from_string and logger_factory; an uncaught ValueError ends
\* the interpreter with status 1.
SetupLogging ==
    /\ pc = "logging"
    /\ IF logging_level_from_string(log_level).raised
       THEN Exit(1, "ValueError")
       ELSE /\ pc' = IF variant = "addyio" THEN "columns" ELSE "main"
            /\ UNCHANGED << exit_code, error_output >>
    /\ UNCHANGED << variant, log_level, columns, column_names, page_number, data_list,
                    requests, responses, file, file_opened >>

\* addyio-data-fetch.py: the column selection of the __main__ block.
SelectColumns ==
    /\ pc = "columns"
    /\ column_names' = selected_columns(columns)
    /\ IF columns.given /\ ~validate_user_column_selection(selected_columns(columns))
       THEN Exit(1, "Column not in main list")
       ELSE pc' = "main" /\ UNCHANGED << exit_code, error_output >>
    /\ UNCHANGED << variant, log_level, columns, page_number, data_list,
                    requests, responses, file, file_opened >>

\* main calls perform_fetches, which sets up data_list and page_number.
StartFetches ==
    /\ pc = "main"
    /\ column_names' = IF variant = "addyio" THEN column_names ELSE fixed_columns
    /\ data_list' = initial_data_list(column_names')
    /\ page_number' = 0
    /\ pc' = "fetching"
    /\ UNCHANGED << variant, log_level, columns, requests, responses, file,
                    file_opened, exit_code, error_output >>

\* One turn of perform_fetches' while-loop: the request, the status check,
\* the empty-page check and the for-loop over the page.
FetchPage ==
    /\ pc = "fetching"
    /\ \E response \in Responses(MaxRecords - Served(responses)) :
          LET result == process_page(variant, response.data, column_names, data_list)
          IN  /\ page_number' = next_page_number(page_number)
              /\ requests' = Append(requests, page_number')
              /\ responses' = Append(responses, response)
              /\ IF status_is_failure(response.status_code)
                 THEN Exit(1, "Failed to acquire data") /\ UNCHANGED data_list
                 ELSE IF Len(response.data) = 0
                 THEN pc' = "write" /\ UNCHANGED << data_list, exit_code, error_output >>
                 ELSE /\ data_list' = result.data_list
                      /\ IF result.outcome = "ok"
                         THEN pc' = "fetching" /\ UNCHANGED << exit_code, error_output >>
                         ELSE Exit(1, result.outcome)
    /\ UNCHANGED << variant, log_level, columns, column_names, file, file_opened >>

\* write_data_to_csv, then the script ends: status 0.
WriteCsv ==
    /\ pc = "write"
    /\ file_opened' = TRUE
    /\ file' = [i \in 1..Len(data_list) |-> csv_line(data_list[i])]
    /\ pc' = "done"
    /\ exit_code' = 0
    /\ UNCHANGED << variant, log_level, columns, column_names, page_number, data_list,
                    requests, responses, error_output >>

Next ==
    \/ ParseArgs
    \/ SetupLogging
    \/ SelectColumns
    \/ StartFetches
    \/ FetchPage
    \/ WriteCsv

Spec == Init /\ [][Next]_vars

TypeOK ==
    /\ pc \in {"parse_args", "logging", "columns", "main", "fetching", "write",
               "done", "exited"}
    /\ exit_code \in {-1, 0, 1, 2}
    /\ page_number = Len(requests)

\* ----------------------------------------------------- vocabulary of the claims
Ok(r) == r.status_code < 400
Failed(r) == r.status_code >= 400
NonEmptyPage(r) == Ok(r) /\ r.data # <<>>
EmptyPage(r) == Ok(r) /\ r.data = <<>>

RECURSIVE Flatten(_)
Flatten(resps) == IF resps = <<>> THEN <<>> ELSE Head(resps).data \o Flatten(Tail(resps))

\* The records of the pages fetched so far, in the order the service sent them.
FetchedRecords == Flatten(SelectSeq(responses, Ok))

Lacks(rec, cols) == \E i \in 1..Len(cols) : cols[i] \notin DOMAIN rec
SomeRecordLacksColumn == \E j \in 1..Len(FetchedRecords) : Lacks(FetchedRecords[j], column_names)

HeaderOf(cols) == [i \in 1..Len(cols) |-> Str(cols[i])]

\* row lists the values of rec in the order of cols
IsRowOf(row, rec, cols) ==
    /\ Len(row) = Len(cols)
    /\ \A i \in 1..Len(cols) : cols[i] \in DOMAIN rec /\ row[i] = rec[cols[i]]

\* data is the header followed by one row per record, in order
IsTableOf(data, recs, cols) ==
    /\ Len(data) = 1 + Len(recs)
    /\ data[1] = HeaderOf(cols)
    /\ \A j \in 1..Len(recs) : IsRowOf(data[j + 1], recs[j], cols)

\* k >= 0 non-empty pages with status < 400, then an empty page
PagesThenEmpty ==
    /\ responses # <<>>
    /\ EmptyPage(responses[Len(responses)])
    /\ \A i \in 1..(Len(responses) - 1) : NonEmptyPage(responses[i])

FileUntouched == file = OldFile /\ ~file_opened
Returned == pc \in {"write", "done"}
Aborted(code) == pc = "exited" /\ exit_code = code

\* ------------------------------------------------------------------ claims

\* C1: when the responses of a run are k >= 0 non-empty pages with status
\* below 400 followed by an empty page, perform_fetches returns the header
\* followed by exactly one row per record of those pages, in page order and in
\* the service's order within each page.
C1_Concatenation ==
    PagesThenEmpty => Returned /\ IsTableOf(data_list, FetchedRecords, column_names)

C1_Witness ==
    /\ pc = "done"
    /\ Len(responses) = 3
    /\ responses[1].data = << AliasC, AliasA >>
    /\ responses[2].data = << AliasB >>
    /\ Len(data_list) = 4

\* C2: once a fetched record lacks a requested column the run has ended with
\* exit code 1, write_data_to_csv is never reached and the output file is
\* neither opened nor changed.
C2_MissingColumnAborts ==
    SomeRecordLacksColumn => Aborted(1) /\ ~Returned /\ FileUntouched

C2_Witness ==
    /\ Aborted(1)
    /\ error_output = "KeyError"
    /\ Len(responses) = 2
    /\ responses[1].data = << AliasA >>
    /\ responses[2].data = << AliasB, AliasC >>

\* C3: a response with status >= 400 is the last response of the run: no
\* request follows it, its body adds no row, the run has ended with exit code
\* 1 and the output file is untouched, however many pages came before it.
C3_FailureStatusAborts ==
    \A i \in 1..Len(responses) :
        Failed(responses[i]) =>
            /\ i = Len(responses)
            /\ Len(requests) = i
            /\ Aborted(1)
            /\ FileUntouched
            /\ Len(data_list) = 1 + Len(Flatten(SubSeq(responses, 1, i - 1)))

C3_Witness ==
    /\ Aborted(1)
    /\ error_output = "Failed to acquire data"
    /\ Len(responses) = 3
    /\ responses[3].status_code = 400
    /\ responses[3].data # <<>>
    /\ Len(data_list) = 3

\* C4: while every fetched record holds every requested column, the table is
\* the requested columns as first row followed by one row per record whose
\* i-th value is the record's value for the i-th column; every row is as long
\* as the header.
C4_Projection ==
    (pc \in {"fetching", "write", "done"} /\ ~SomeRecordLacksColumn) =>
        /\ IsTableOf(data_list, FetchedRecords, column_names)
        /\ \A j \in 1..Len(data_list) : Len(data_list[j]) = Len(data_list[1])

C4_Witness ==
    /\ pc = "done"
    /\ columns = ColumnsGiven(<< "description", Comma, "email" >>)
    /\ data_list = << << Str("description"), Str("email") >>,
                      << Str("d1"), Str("a@x.com") >>,
                      << None, Str("b@x.com") >> >>

\* C5 as stated: with --columns omitted the header is the sorted union of the
\* keys of all fetched records, and a record lacking one of those keys does
\* not abort the run.
UnionOfKeys ==
    UNION {DOMAIN FetchedRecords[j] : j \in 1..Len(FetchedRecords)}

C5_AsStated ==
    (variant = "addyio" /\ ~columns.given) =>
        /\ Returned => data_list[1] = HeaderOf(sorted(UnionOfKeys))
        /\ error_output \notin {"KeyError", "Missing keys detected"}

\* C5: with --columns omitted the header is main_column_list, in the order
\* the function lists the names, whatever keys the fetched records have; and a
\* fetched record lacking one of those names ends the run with exit code 1
\* and the file untouched.
C5_DefaultHeader ==
    (variant = "addyio" /\ ~columns.given) =>
        /\ pc \in {"fetching", "write", "done"} =>
              /\ data_list[1] = HeaderOf(main_column_list)
              /\ \A j \in 1..Len(FetchedRecords) :
                    Range(main_column_list) \subseteq DOMAIN FetchedRecords[j]
        /\ pc = "done" => file[1] = csv_join(main_column_list)
        /\ (\E j \in 1..Len(FetchedRecords) : Lacks(FetchedRecords[j], main_column_list))
              => Aborted(1) /\ FileUntouched

C5_Witness ==
    /\ variant = "addyio"
    /\ ~columns.given
    /\ pc = "done"
    /\ FetchedRecords = << AliasB, AliasA >>
    /\ Len(file) = 3

\* C6: when a supplied column name, after stripping, is not in the allow-list,
\* no page request is ever issued and the file is never written; when all
\* supplied names are in the list, the run goes on to fetching with exactly
\* those names in the supplied order.
SuppliedNames == user_column_selection(columns.tokens)
AllSuppliedNamesKnown ==
    \A i \in 1..Len(SuppliedNames) : SuppliedNames[i] \in Range(main_column_list)

C6_ValidationBeforeFetch ==
    (variant = "addyio" /\ columns.given) =>
        IF AllSuppliedNamesKnown
        THEN /\ error_output # "Column not in main list"
             /\ pc \in {"main", "fetching", "write", "done"} => column_names = SuppliedNames
             /\ pc \in {"fetching", "write", "done"} => data_list[1] = HeaderOf(SuppliedNames)
             /\ (pc = "exited" /\ log_level \in LogLevelChoices) => requests # <<>>
        ELSE /\ requests = <<>>
             /\ FileUntouched
             /\ pc \in {"parse_args", "logging", "columns", "exited"}

C6_Witness ==
    /\ columns = ColumnsGiven(<< Space, "email", Space >>)
    /\ column_names = << "email" >>
    /\ pc = "done"
    /\ Len(requests) = 2

\* C7 as stated: exit code 0 when the run completes, 1 on every failure: bad
\* status, missing column, invalid column name, unrecognized log level.
UnrecognizedLogLevel == log_level \notin LogLevelChoices
InvalidColumnName == variant = "addyio" /\ columns.given /\ ~AllSuppliedNamesKnown
BadStatus == \E i \in 1..Len(responses) : Failed(responses[i])

C7_AsStated ==
    /\ pc = "done" => exit_code = 0
    /\ pc = "exited" =>
          /\ BadStatus => exit_code = 1
          /\ SomeRecordLacksColumn => exit_code = 1
          /\ InvalidColumnName => exit_code = 1
          /\ UnrecognizedLogLevel => exit_code = 1

\* C7: exit code 0 exactly when the run completes; 1 on a bad status, a
\* missing column and an invalid column name; a --log-level text outside the
\* parser's choices ends the run with exit code 2 before anything else runs.
C7_ExitCodes ==
    /\ pc = "done" <=> exit_code = 0
    /\ pc \notin {"done", "exited"} <=> exit_code = -1
    /\ pc = "exited" =>
          /\ UnrecognizedLogLevel <=> exit_code = 2
          /\ ~UnrecognizedLogLevel => exit_code = 1
          /\ exit_code = 1 => BadStatus \/ SomeRecordLacksColumn \/ InvalidColumnName
    /\ (UnrecognizedLogLevel /\ pc # "parse_args") =>
          Aborted(2) /\ requests = <<>> /\ FileUntouched

C7_Witness ==
    /\ log_level = "fatal"
    /\ Aborted(2)
    /\ error_output = "argparse: invalid choice"

\* C8: when page 1 is empty with status below 400 the run succeeds and the
\* file holds exactly one line, the header.
FirstPageEmpty == Len(responses) = 1 /\ EmptyPage(responses[1])

C8_HeaderOnly ==
    FirstPageEmpty =>
        /\ Returned
        /\ pc = "done" => exit_code = 0 /\ file = << csv_join(column_names) >>

C8_Witness ==
    /\ FirstPageEmpty
    /\ pc = "done"
    /\ file = << "email,description" >>

\* C9 as stated: requests carry the page numbers 1, 2, 3, ... in order, none
\* follows the first empty page, and the loop has ended if and only if the
\* service returned an empty page or a status >= 400.
RequestsAreSequential ==
    /\ \A i \in 1..Len(requests) : requests[i] = i
    /\ Len(responses) = Len(requests)
StopsAtFirstEmptyPage ==
    \A i \in 1..Len(responses) : responses[i].data = <<>> => i = Len(responses)
LoopEnded == requests # <<>> /\ pc # "fetching"
EmptyOrFailed == \E i \in 1..Len(responses) : EmptyPage(responses[i]) \/ Failed(responses[i])

C9_AsStated ==
    /\ RequestsAreSequential
    /\ StopsAtFirstEmptyPage
    /\ LoopEnded <=> EmptyOrFailed

\* C9: requests carry the page numbers 1, 2, 3, ... in order, none follows the
\* first empty page, and the loop has ended if and only if the service
\* returned an empty page, a status >= 400, or a page with a record that
\* lacks a requested column.
C9_PagerLoop ==
    /\ RequestsAreSequential
    /\ StopsAtFirstEmptyPage
    /\ LoopEnded <=> (EmptyOrFailed \/ SomeRecordLacksColumn)

C9_Witness ==
    /\ requests = << 1, 2, 3, 4 >>
    /\ PagesThenEmpty
    /\ pc = "write"

\* C10 as stated: key_is_missing(d, key) is true exactly when key is not a key
\* of d, so a fetched record without a requested column ends the run in the
\* 'Missing keys detected' path, while a null value is not reported.
C10_AsStated ==
    variant = "addyio" =>
        \A j \in 1..Len(FetchedRecords) : \A i \in 1..Len(column_names) :
            /\ key_is_missing(FetchedRecords[j], column_names[i])
                  <=> column_names[i] \notin DOMAIN FetchedRecords[j]
            /\ column_names[i] \notin DOMAIN FetchedRecords[j]
                  => error_output = "Missing keys detected"

====
